---------------------------- MODULE Spec2Model ----------------------------
(***************************************************************************)
(* The spin/selection engine of the raffle application (src/src/app.rs):   *)
(* App (start_spin, tick/spin_round, apply_acceleration, stop_spin,        *)
(* reset_spin) and StatefulList (next, previous, unselect, get_selected,   *)
(* remove).                                                                *)
(*                                                                         *)
(* The f32 fields position, speed and acceleration are modelled as IEEE    *)
(* 754 binary32 values with round-to-nearest-even arithmetic, so that the  *)
(* floor of the position and the comparison with the 0.1 threshold are     *)
(* computed as the program computes them.                                  *)
(***************************************************************************)
EXTENDS Integers, Sequences, FiniteSets, TLC

(***************************************************************************)
(* Bounds of the model.                                                    *)
(***************************************************************************)
\* longest participant list read at construction
MaxLen == 3
\* start_spin is not taken once all_winners holds this many entries
MaxHistory == 2
\* largest increment a caller passes to StatefulList::next
MaxStep == 2

(***************************************************************************)
(* binary32 arithmetic on non-negative values.  A value is [m, e] and      *)
(* denotes m * 2^e; it is zero (m = 0, e = 0) or normal (2^23 <= m <      *)
(* 2^24).  Every intermediate integer stays below 2^31.  Each operation is *)
(* a function of its operands, so that the operands are values when it is  *)
(* applied.                                                                *)
(***************************************************************************)
Pow2(k) == 2 ^ k

MantHi == Pow2(24)

MantLo == Pow2(23)

F32(m, e) == [m |-> m, e |-> e]

F32Values == [m : Nat, e : Int]

FZero == F32(0, 0)

\* the number of bits of s, 0 <= s < 2^31
BitLenOf[s \in Nat] ==
    IF s = 0 THEN 0
    ELSE IF s < 16777216 THEN 1 + BitLenOf[s \div 2]
    ELSE IF s < 268435456
         THEN IF s < 67108864
              THEN (IF s < 33554432 THEN 25 ELSE 26)
              ELSE (IF s < 134217728 THEN 27 ELSE 28)
         ELSE IF s < 536870912 THEN 29
         ELSE IF s < 1073741824 THEN 30 ELSE 31

BitLen(s) == BitLenOf[s]

\* The binary32 nearest to (s + f) * 2^e, ties to even, where f = 0 when
\* sticky is FALSE and 0 < f < 1 when it is TRUE (then s has over 24 bits).
RoundF32Of[t \in Nat \X BOOLEAN \X Int] ==
    LET s      == t[1]
        sticky == t[2]
        e      == t[3]
    IN  IF s = 0 THEN FZero
        ELSE LET bits == BitLen(s) IN
             IF bits <= 24
             THEN F32(s * Pow2(24 - bits), e - (24 - bits))
             ELSE LET k    == bits - 24
                      q    == s \div Pow2(k)
                      r    == s % Pow2(k)
                      half == Pow2(k - 1)
                      up   == \/ r > half
                              \/ r = half /\ (sticky \/ q % 2 = 1)
                      m    == IF up THEN q + 1 ELSE q
                  IN  IF m = MantHi THEN F32(MantLo, e + k + 1)
                                    ELSE F32(m, e + k)

RoundF32(s, sticky, e) == RoundF32Of[<< s, sticky, e >>]

\* m shifted right by sh bits, and whether a non-zero bit was shifted out
ShiftedRight(m, sh) == IF sh >= 25 THEN 0 ELSE m \div Pow2(sh)

ShiftedOut(m, sh) == IF sh >= 25 THEN m # 0 ELSE m % Pow2(sh) # 0

\* x + y
FAddOf[t \in F32Values \X F32Values] ==
    LET x == t[1]
        y == t[2]
    IN  IF x.m = 0 THEN y
        ELSE IF y.m = 0 THEN x
        ELSE LET hi == IF x.e >= y.e THEN x ELSE y
                 lo == IF x.e >= y.e THEN y ELSE x
                 d  == hi.e - lo.e
             IN  IF d <= 6
                 THEN RoundF32(hi.m * Pow2(d) + lo.m, FALSE, lo.e)
                 ELSE RoundF32(hi.m * 64 + ShiftedRight(lo.m, d - 6),
                               ShiftedOut(lo.m, d - 6), hi.e - 6)

FAdd(x, y) == FAddOf[<< x, y >>]

\* x - y for x >= y >= 0 (the only subtractions the program makes)
FSubOf[t \in F32Values \X F32Values] ==
    LET x == t[1]
        y == t[2]
    IN  IF y.m = 0 THEN x
        ELSE LET d == x.e - y.e IN
             IF d <= 6
             THEN RoundF32(x.m * Pow2(d) - y.m, FALSE, y.e)
             ELSE RoundF32(x.m * 64 - ShiftedRight(y.m, d - 6)
                             - (IF ShiftedOut(y.m, d - 6) THEN 1 ELSE 0),
                           ShiftedOut(y.m, d - 6), x.e - 6)

FSub(x, y) == FSubOf[<< x, y >>]

\* x * y: the 48-bit product of the mantissas, in 12-bit limbs
FMulOf[t \in F32Values \X F32Values] ==
    LET x == t[1]
        y == t[2]
    IN  IF x.m = 0 \/ y.m = 0 THEN FZero
        ELSE LET a1  == x.m \div 4096
                 a0  == x.m % 4096
                 b1  == y.m \div 4096
                 b0  == y.m % 4096
                 mid == a1 * b0 + a0 * b1
                 low == a0 * b0 + (mid % 4096) * 4096
                 hi  == a1 * b1 + (mid \div 4096) + (low \div MantHi)
                 lo  == low % MantHi
                 \* product = hi * 2^24 + lo, 2^22 <= hi < 2^24
             IN  RoundF32(hi * 64 + lo \div Pow2(18), lo % Pow2(18) # 0,
                          x.e + y.e + 18)

FMul(x, y) == FMulOf[<< x, y >>]

\* one step of long division, five quotient bits at a time: qr is
\* <<quotient so far, remainder>> and d the divisor (remainder < d < 2^24)
DivStepOf[t \in (Nat \X Nat) \X Nat] ==
    << t[1][1] * 32 + (t[1][2] * 32) \div t[2], (t[1][2] * 32) % t[2] >>

DivStep(qr, d) == DivStepOf[<< qr, d >>]

\* x / y, y > 0: 25 quotient bits below the leading one, and the remainder
\* as the sticky bit
FDivOf[t \in F32Values \X F32Values] ==
    LET x == t[1]
        y == t[2]
    IN  IF x.m = 0 THEN FZero
        ELSE LET q0 == << x.m \div y.m, x.m % y.m >>
                 q5 == DivStep(DivStep(DivStep(DivStep(DivStep(q0, y.m),
                                 y.m), y.m), y.m), y.m)
             IN  RoundF32(q5[1], q5[2] # 0, x.e - y.e - 25)

FDiv(x, y) == FDivOf[<< x, y >>]

\* x > y
FGtOf[t \in F32Values \X F32Values] ==
    LET x == t[1]
        y == t[2]
    IN  IF x.m = 0 THEN FALSE
        ELSE IF y.m = 0 THEN TRUE
        ELSE x.e > y.e \/ (x.e = y.e /\ x.m > y.m)

FGt(x, y) == FGtOf[<< x, y >>]

FGe(x, y) == x = y \/ FGt(x, y)

\* n as f32
FromUsize(n) == RoundF32(n, FALSE, 0)

\* x.floor() as usize
FloorOf[x \in F32Values] ==
    IF x.m = 0 THEN 0
    ELSE IF x.e >= 0 THEN x.m * Pow2(x.e)
    ELSE IF 0 - x.e >= 24 THEN 0
    ELSE x.m \div Pow2(0 - x.e)

FloorUsize(x) == FloorOf[x]

\* the largest binary32 below x, x > 0
FPredOf[x \in F32Values] ==
    IF x.m = MantLo THEN F32(MantHi - 1, x.e - 1) ELSE F32(x.m - 1, x.e)

FPred(x) == FPredOf[x]

\* the f32 literals of the program
F_0_1 == F32(13421773, -27)

F_0_5 == F32(8388608, -24)

F_0_9 == F32(15099494, -24)

F_1_0 == F32(8388608, -23)

F_3_0 == F32(12582912, -22)


(***************************************************************************)
(* Option<T>: None is the empty sequence, Some(x) the sequence <<x>>.      *)
(***************************************************************************)
None == << >>

Some(x) == << x >>

(***************************************************************************)
(* Participant: a name and the is_winner flag.  The loader hands the       *)
(* records over unflagged.                                                 *)
(***************************************************************************)
Names == << "A", "B", "C", "D", "E" >>

Participant(name) == [name |-> name, is_winner |-> FALSE]

Participants(n) == [i \in 1..n |-> Participant(Names[i])]

(***************************************************************************)
(* The state of App.  items and selected are all_participants.items and    *)
(* all_participants.state.selected(); indices are 0-based as in the        *)
(* program, so the item at index i is items[i + 1].  panicked records that *)
(* an index went out of bounds (the process aborts).                       *)
(***************************************************************************)
VARIABLES items, selected, all_winners, is_spinning, position, speed,
          acceleration, spin_winner, panicked

vars == << items, selected, all_winners, is_spinning, position, speed,
           acceleration, spin_winner, panicked >>

list == << items, selected >>

spinner == << is_spinning, position, speed, acceleration, spin_winner >>

Init ==
    /\ \E n \in 0..MaxLen : items = Participants(n)
    /\ selected = None
    /\ all_winners = << >>
    /\ is_spinning = FALSE
    /\ position = FZero
    /\ speed = FZero
    /\ acceleration = FZero
    /\ spin_winner = None
    /\ panicked = FALSE

(***************************************************************************)
(* StatefulList                                                            *)
(***************************************************************************)
\* next with an absent selection counted as index 0 before the step
NextIndexFromNone(its, sel, increment) ==
    IF Len(its) = 0 THEN sel
    ELSE IF sel # None THEN Some((sel[1] + increment) % Len(its))
    ELSE Some(increment % Len(its))

\* next that selects nothing when nothing was selected
NextIndexKeepsNone(its, sel, increment) ==
    IF Len(its) = 0 THEN sel
    ELSE IF sel # None THEN Some((sel[1] + increment) % Len(its))
    ELSE None

\* next that stops at the last item instead of wrapping
NextIndexClamped(its, sel, increment) ==
    IF Len(its) = 0 THEN sel
    ELSE IF sel # None
         THEN IF sel[1] + increment >= Len(its) THEN Some(Len(its) - 1)
              ELSE Some(sel[1] + increment)
    ELSE Some(0)

\* the selection StatefulList::next(increment) leaves
NextIndex(its, sel, increment) ==
    IF Len(its) = 0 THEN sel
    ELSE IF sel # None THEN Some((sel[1] + increment) % Len(its))
    ELSE Some(0)

next(increment) ==
    /\ selected' = NextIndex(items, selected, increment)
    /\ UNCHANGED << items, all_winners, spinner, panicked >>

\* previous that selects the last item when nothing was selected
PreviousIndexFromNone(its, sel) ==
    IF Len(its) = 0 THEN sel
    ELSE IF sel # None
         THEN IF sel[1] = 0 THEN Some(Len(its) - 1) ELSE Some(sel[1] - 1)
    ELSE Some(Len(its) - 1)

PreviousIndex(its, sel) ==
    IF Len(its) = 0 THEN sel
    ELSE IF sel # None
         THEN IF sel[1] = 0 THEN Some(Len(its) - 1) ELSE Some(sel[1] - 1)
    ELSE Some(0)

previous ==
    /\ selected' = PreviousIndex(items, selected)
    /\ UNCHANGED << items, all_winners, spinner, panicked >>

unselect ==
    /\ selected' = None
    /\ UNCHANGED << items, all_winners, spinner, panicked >>

\* self.items[index] is out of bounds
IndexPanics(its, sel) == sel # None /\ sel[1] >= Len(its)

\* a clone of the selected item
get_selected(its, sel) ==
    IF sel # None THEN Some(its[sel[1] + 1]) ELSE None

\* Vec::swap_remove(i): the last item takes the place of the removed one
VecSwapRemove(its, i) ==
    [j \in 1..(Len(its) - 1) |-> IF j = i + 1 THEN its[Len(its)] ELSE its[j]]

\* Vec::remove(i): the items after i shift down by one
VecRemove(its, i) ==
    [j \in 1..(Len(its) - 1) |-> IF j <= i THEN its[j] ELSE its[j + 1]]

\* remove without self.state.select(None)
remove_keeps_selection ==
    IF Len(items) = 0 \/ selected = None
    THEN UNCHANGED vars
    ELSE IF selected[1] >= Len(items)
    THEN panicked' = TRUE
         /\ UNCHANGED << items, selected, all_winners, spinner >>
    ELSE /\ items' = VecRemove(items, selected[1])
         /\ UNCHANGED << selected, all_winners, spinner, panicked >>

remove ==
    IF Len(items) = 0 \/ selected = None
    THEN UNCHANGED vars
    ELSE IF selected[1] >= Len(items)
    THEN panicked' = TRUE
         /\ UNCHANGED << items, selected, all_winners, spinner >>
    ELSE /\ items' = VecRemove(items, selected[1])
         /\ selected' = None
         /\ UNCHANGED << all_winners, spinner, panicked >>

(***************************************************************************)
(* App                                                                     *)
(***************************************************************************)
min_acceleration(n) == FDiv(F_0_5, FromUsize(n))

max_acceleration(n) == FDiv(F_0_9, FromUsize(n))

\* rng.gen_range(low..=high): the upper end included
GenRangeInclusive(low, high) ==
    LET lo == low
        hi == high
    IN  {a \in {lo, hi} : FGe(a, lo) /\ FGe(hi, a)}

\* rng.gen_range(low..high) returns some f32 a with low <= a < high: here
\* the least and the greatest such value
GenRange(low, high) ==
    LET lo == low
        hi == high
    IN  {a \in {lo, FPred(hi)} : FGe(a, lo) /\ FGt(hi, a)}

\* start_spin without the is_empty check: 0.5 / 0.0 and 0.9 / 0.0 are both
\* infinite and gen_range panics on the empty range
start_spin_unchecked ==
    IF Len(items) = 0
    THEN panicked' = TRUE /\ UNCHANGED << list, all_winners, spinner >>
    ELSE /\ position' = FZero
         /\ speed' = F_3_0
         /\ spin_winner' = None
         /\ is_spinning' = TRUE
         /\ acceleration' \in GenRange(min_acceleration(Len(items)),
                                       max_acceleration(Len(items)))
         /\ UNCHANGED << items, selected, all_winners, panicked >>

\* start_spin without self.spin_winner = None
start_spin_keeps_winner ==
    IF Len(items) = 0
    THEN UNCHANGED vars
    ELSE /\ position' = FZero
         /\ speed' = F_3_0
         /\ is_spinning' = TRUE
         /\ acceleration' \in GenRange(min_acceleration(Len(items)),
                                       max_acceleration(Len(items)))
         /\ UNCHANGED << items, selected, all_winners, spin_winner, panicked >>

start_spin ==
    IF Len(items) = 0
    THEN UNCHANGED vars
    ELSE /\ position' = FZero
         /\ speed' = F_3_0
         /\ spin_winner' = None
         /\ is_spinning' = TRUE
         /\ acceleration' \in GenRange(min_acceleration(Len(items)),
                                       max_acceleration(Len(items)))
         /\ UNCHANGED << items, selected, all_winners, panicked >>

\* the position after position += speed, and its floor
Advanced(pos, spd) == FAdd(pos, spd)

\* apply_acceleration without self.speed *= 1.0 - self.acceleration
apply_acceleration_no_decay ==
    LET i == FloorUsize(Advanced(position, speed)) IN
    /\ selected' = NextIndex(items, selected, i)
    /\ position' = FSub(Advanced(position, speed), FromUsize(i))
    /\ UNCHANGED << items, all_winners, is_spinning, speed, acceleration,
                    spin_winner, panicked >>

\* apply_acceleration without self.position -= i as f32
apply_acceleration_keeps_whole ==
    LET i == FloorUsize(Advanced(position, speed)) IN
    /\ selected' = NextIndex(items, selected, i)
    /\ position' = Advanced(position, speed)
    /\ speed' = FMul(speed, FSub(F_1_0, acceleration))
    /\ UNCHANGED << items, all_winners, is_spinning, acceleration,
                    spin_winner, panicked >>

\* apply_acceleration that steps by the floor of speed alone, the fraction
\* of position left out
apply_acceleration_floor_of_speed ==
    LET i == FloorUsize(speed) IN
    /\ selected' = NextIndex(items, selected, i)
    /\ position' = FSub(Advanced(position, speed), FromUsize(i))
    /\ speed' = FMul(speed, FSub(F_1_0, acceleration))
    /\ UNCHANGED << items, all_winners, is_spinning, acceleration,
                    spin_winner, panicked >>

apply_acceleration ==
    LET i == FloorUsize(Advanced(position, speed)) IN
    /\ selected' = NextIndex(items, selected, i)
    /\ position' = FSub(Advanced(position, speed), FromUsize(i))
    /\ speed' = FMul(speed, FSub(F_1_0, acceleration))
    /\ UNCHANGED << items, all_winners, is_spinning, acceleration,
                    spin_winner, panicked >>

\* the clone of the selected participant with winner.is_winner = true
Flagged(p) == [p EXCEPT !.is_winner = TRUE]

\* stop_spin that also zeroes the speed
stop_spin_zeroes_speed ==
    /\ is_spinning' = FALSE
    /\ speed' = FZero
    /\ UNCHANGED << list, all_winners, position, acceleration, spin_winner,
                    panicked >>

stop_spin ==
    /\ is_spinning' = FALSE
    /\ UNCHANGED << list, all_winners, position, speed, acceleration,
                    spin_winner, panicked >>

\* spin_round without winner.is_winner = true
spin_round_unflagged ==
    IF ~is_spinning
    THEN UNCHANGED vars
    ELSE IF FGt(speed, F_0_1)
    THEN apply_acceleration
    ELSE IF IndexPanics(items, selected)
    THEN panicked' = TRUE
         /\ UNCHANGED << list, all_winners, spinner >>
    ELSE IF get_selected(items, selected) # None
    THEN LET winner == get_selected(items, selected)[1] IN
         /\ spin_winner' = Some(winner)
         /\ all_winners' = Append(all_winners, winner)
         /\ is_spinning' = FALSE
         /\ UNCHANGED << list, position, speed, acceleration, panicked >>
    ELSE UNCHANGED vars

\* spin_round without the is_spinning check
spin_round_no_idle_check ==
    IF FGt(speed, F_0_1)
    THEN apply_acceleration
    ELSE IF IndexPanics(items, selected)
    THEN panicked' = TRUE
         /\ UNCHANGED << list, all_winners, spinner >>
    ELSE IF get_selected(items, selected) # None
    THEN LET winner == Flagged(get_selected(items, selected)[1]) IN
         /\ spin_winner' = Some(winner)
         /\ all_winners' = Append(all_winners, winner)
         /\ is_spinning' = FALSE
         /\ UNCHANGED << list, position, speed, acceleration, panicked >>
    ELSE UNCHANGED vars

\* spin_round that stops the spin when no participant is selected
spin_round_stops_without_winner ==
    IF ~is_spinning
    THEN UNCHANGED vars
    ELSE IF FGt(speed, F_0_1)
    THEN apply_acceleration
    ELSE IF IndexPanics(items, selected)
    THEN panicked' = TRUE
         /\ UNCHANGED << list, all_winners, spinner >>
    ELSE IF get_selected(items, selected) # None
    THEN LET winner == Flagged(get_selected(items, selected)[1]) IN
         /\ spin_winner' = Some(winner)
         /\ all_winners' = Append(all_winners, winner)
         /\ is_spinning' = FALSE
         /\ UNCHANGED << list, position, speed, acceleration, panicked >>
    ELSE stop_spin

spin_round ==
    IF ~is_spinning
    THEN UNCHANGED vars
    ELSE IF FGt(speed, F_0_1)
    THEN apply_acceleration
    ELSE IF IndexPanics(items, selected)
    THEN panicked' = TRUE
         /\ UNCHANGED << list, all_winners, spinner >>
    ELSE IF get_selected(items, selected) # None
    THEN LET winner == Flagged(get_selected(items, selected)[1]) IN
         /\ spin_winner' = Some(winner)
         /\ all_winners' = Append(all_winners, winner)
         /\ is_spinning' = FALSE
         /\ UNCHANGED << list, position, speed, acceleration, panicked >>
    ELSE UNCHANGED vars

tick == spin_round

\* reset_spin without the call of stop_spin
reset_spin_keeps_spinning ==
    /\ speed' = FZero
    /\ spin_winner' = None
    /\ UNCHANGED << list, all_winners, is_spinning, position, acceleration,
                    panicked >>

\* reset_spin that also clears all_winners
reset_spin_clears_history ==
    /\ is_spinning' = FALSE
    /\ speed' = FZero
    /\ spin_winner' = None
    /\ all_winners' = << >>
    /\ UNCHANGED << list, position, acceleration, panicked >>

reset_spin ==
    /\ is_spinning' = FALSE
    /\ speed' = FZero
    /\ spin_winner' = None
    /\ UNCHANGED << list, all_winners, position, acceleration, panicked >>

(***************************************************************************)
(* The engine under any sequence of commands.  A panic ends the process.   *)
(***************************************************************************)
Next ==
    \/ ~panicked /\ \E k \in 0..MaxStep : next(k)
    \/ ~panicked /\ previous
    \/ ~panicked /\ unselect
    \/ ~panicked /\ remove
    \/ ~panicked /\ Len(all_winners) < MaxHistory /\ start_spin
    \/ ~panicked /\ tick
    \/ ~panicked /\ stop_spin
    \/ ~panicked /\ reset_spin

Spec == Init /\ [][Next]_vars

(***************************************************************************)
(* The engine when a spin, once started, is driven by tick alone: the      *)
(* other commands are called only while the engine is not spinning.  The   *)
(* periodic driver calls tick once per frame, so a tick that can change    *)
(* the state is eventually taken.                                          *)
(***************************************************************************)
TickOnlyNext ==
    \/ ~panicked /\ ~is_spinning /\ \E k \in 0..MaxStep : next(k)
    \/ ~panicked /\ ~is_spinning /\ previous
    \/ ~panicked /\ ~is_spinning /\ unselect
    \/ ~panicked /\ ~is_spinning /\ remove
    \/ ~panicked /\ ~is_spinning /\ Len(all_winners) < MaxHistory /\ start_spin
    \/ ~panicked /\ tick

TickOnlySpec == Init /\ [][TickOnlyNext]_vars /\ WF_vars(~panicked /\ tick)


(***************************************************************************)
(* A tick-only spin whose random source returns the decay 0.2 (the f32     *)
(* nearest to it).  gen_range(min..max) can return that value exactly for  *)
(* the list lengths whose range [0.5 / n, 0.9 / n) holds it: 3 and 4.      *)
(***************************************************************************)
F_0_2 == F32(13421773, -26)

\* start_spin when gen_range(min_acceleration..max_acceleration) returns decay
start_spin_returning(decay) ==
    /\ Len(items) > 0
    /\ FGe(decay, min_acceleration(Len(items)))
    /\ FGt(max_acceleration(Len(items)), decay)
    /\ position' = FZero
    /\ speed' = F_3_0
    /\ spin_winner' = None
    /\ is_spinning' = TRUE
    /\ acceleration' = decay
    /\ UNCHANGED << items, selected, all_winners, panicked >>

FixedDecayNext ==
    \/ ~panicked /\ ~is_spinning /\ \E k \in 0..MaxStep : next(k)
    \/ ~panicked /\ ~is_spinning /\ previous
    \/ ~panicked /\ ~is_spinning /\ unselect
    \/ ~panicked /\ ~is_spinning /\ remove
    \/ ~panicked /\ ~is_spinning /\ Len(all_winners) < MaxHistory
         /\ start_spin_returning(F_0_2)
    \/ ~panicked /\ tick

FixedDecaySpec == Init /\ [][FixedDecayNext]_vars


(***************************************************************************)
(* Properties.  An operation's contract is stated as an action property:   *)
(* every step that is a step of the operation ends as the contract says.   *)
(***************************************************************************)
\* the copy of participant p with the winner flag set
WinnerCopy(p) == [name |-> p.name, is_winner |-> TRUE]

\* a selection is absent or an index into its
ValidSelection(its, sel) ==
    sel = None \/ (Len(sel) = 1 /\ sel[1] \in 0..(Len(its) - 1))

\* C1: in a spin driven by tick alone, every tick taken while speed > 0.1
\* strictly decreases speed, speed reaches a value <= 0.1 after finitely
\* many ticks, and the tick taken then finalizes a winner and clears
\* is_spinning.
C1_TickOnlyTerminates ==
    /\ [][(is_spinning /\ FGt(speed, F_0_1))
            => (is_spinning' /\ FGt(speed, speed'))]_vars
    /\ [][(is_spinning /\ ~FGt(speed, F_0_1))
            => /\ is_spinning' = FALSE
               /\ spin_winner' # None
               /\ Len(all_winners') = Len(all_winners) + 1]_vars
    /\ (is_spinning ~> (is_spinning /\ ~FGt(speed, F_0_1)))
    /\ (is_spinning ~> ~is_spinning)

\* a spin of three participants at the slowest decay has run to its winner
C1_Witness ==
    /\ ~is_spinning /\ spin_winner # None
    /\ Len(items) = 3
    /\ acceleration = FDiv(F_0_5, FromUsize(3))
    /\ speed # FZero /\ ~FGt(speed, F_0_1)

\* C2: a tick taken while spinning with speed <= 0.1 and a participant
\* selected appends exactly one entry to all_winners, the selected
\* participant's copy with is_winner = true, stores the same copy in
\* spin_winner and clears is_spinning; position, speed, acceleration and
\* the selection are unchanged.
C2_Finalize ==
    [][(is_spinning /\ ~FGt(speed, F_0_1) /\ selected # None /\ tick)
         => /\ Len(all_winners') = Len(all_winners) + 1
            /\ SubSeq(all_winners', 1, Len(all_winners)) = all_winners
            /\ all_winners'[Len(all_winners')] = WinnerCopy(items[selected[1] + 1])
            /\ spin_winner' = Some(WinnerCopy(items[selected[1] + 1]))
            /\ is_spinning' = FALSE
            /\ UNCHANGED << position, speed, acceleration, selected >>]_vars

\* a second spin has been finalized by a tick at speed <= 0.1
C2_Witness ==
    /\ ~is_spinning
    /\ Len(all_winners) = 2
    /\ spin_winner = Some(all_winners[2])
    /\ speed # FZero /\ ~FGt(speed, F_0_1)

\* C3: in every reachable state the selected index is absent or within
\* 0 <= index < length, it is absent when the list is empty, and no
\* operation has indexed out of bounds.
C3_SelectionValid ==
    /\ ValidSelection(items, selected)
    /\ (Len(items) = 0 => selected = None)
    /\ ~panicked

\* the last participant was removed in the middle of a spin
C3_Witness ==
    Len(items) = 0 /\ selected = None /\ is_spinning /\ FGt(speed, F_0_1)

\* C4: start_spin on a non-empty list of size n sets position = 0,
\* speed = 3.0, spin_winner = None, is_spinning = true and acceleration to a
\* value a with 0.5/n <= a < 0.9/n (the f32 quotients), and leaves the
\* items, the selection and all_winners unchanged.
C4_StartSpin ==
    [][(Len(items) > 0 /\ start_spin)
         => /\ position' = FZero
            /\ speed' = F_3_0
            /\ spin_winner' = None
            /\ is_spinning' = TRUE
            /\ FGe(acceleration', FDiv(F_0_5, FromUsize(Len(items))))
            /\ FGt(FDiv(F_0_9, FromUsize(Len(items))), acceleration')
            /\ UNCHANGED << items, selected, all_winners >>]_vars

\* a spin was started over a finished one: the old winner is cleared and the
\* history kept
C4_Witness ==
    /\ is_spinning /\ speed = F_3_0 /\ position = FZero
    /\ spin_winner = None
    /\ Len(all_winners) = 1
    /\ Len(items) = MaxLen

\* C5: start_spin on an empty participant list changes no field.
C5_StartSpinEmpty ==
    [][(Len(items) = 0 /\ start_spin) => UNCHANGED vars]_vars

\* an idle engine whose list was emptied after a spin, with start_spin
\* callable
C5_Witness ==
    /\ Len(items) = 0 /\ ~is_spinning
    /\ acceleration # FZero
    /\ Len(all_winners) < MaxHistory

\* C6: next(k) changes nothing on an empty list (nothing is selected),
\* selects index 0 on a non-empty list with no selection for every k, and
\* sets selection i to (i + k) mod length otherwise; the items are unchanged.
C6_Advance ==
    [][\A k \in 0..MaxStep :
         next(k)
           => /\ items' = items
              /\ Len(items) = 0 => selected' = None /\ UNCHANGED vars
              /\ Len(items) > 0 /\ selected = None => selected' = Some(0)
              /\ Len(items) > 0 /\ selected # None
                   => selected' = Some((selected[1] + k) % Len(items))]_vars

\* the last of the participants is selected without any spin
C6_Witness ==
    /\ Len(items) = MaxLen /\ selected = Some(MaxLen - 1)
    /\ acceleration = FZero

\* C7: remove with selection i on a list of length n leaves the old list
\* with exactly the item at i deleted, the others in order, and no
\* selection, so get_selected then returns None; with no selection or an
\* empty list it changes nothing.
C7_Remove ==
    [][remove
         => IF Len(items) > 0 /\ selected # None
            THEN /\ Len(items') = Len(items) - 1
                 /\ \A j \in 1..Len(items') :
                      items'[j] = items[IF j <= selected[1] THEN j ELSE j + 1]
                 /\ selected' = None
                 /\ get_selected(items', selected') = None
            ELSE UNCHANGED vars]_vars

\* B was removed from between A and C
C7_Witness ==
    /\ Len(items) = 2
    /\ items[1].name = "A" /\ items[2].name = "C"
    /\ selected = None

\* C8: a tick while is_spinning is false changes no state, and no step
\* taken while the engine is not spinning changes all_winners: one entry
\* per completed spin.
C8_IdleTick ==
    /\ [][(~is_spinning /\ tick) => UNCHANGED vars]_vars
    /\ [][~is_spinning => all_winners' = all_winners]_vars

\* a spin has just finalized: further ticks find speed <= 0.1 and a
\* selection
C8_Witness ==
    /\ ~is_spinning /\ spin_winner # None
    /\ Len(all_winners) = 1
    /\ speed # FZero /\ ~FGt(speed, F_0_1)
    /\ selected # None

\* C9: stop_spin clears is_spinning and leaves every other field; a second
\* stop_spin changes nothing.
C9_StopSpin ==
    /\ [][stop_spin
            => /\ is_spinning' = FALSE
               /\ UNCHANGED << speed, position, acceleration, spin_winner,
                               all_winners, items, selected >>]_vars
    /\ [][(~is_spinning /\ stop_spin) => UNCHANGED vars]_vars

\* a spin stopped while still fast
C9_Witness ==
    ~is_spinning /\ FGt(speed, F_0_1) /\ position # FZero

\* C10: reset_spin sets is_spinning = false, speed = 0 and spin_winner =
\* None and leaves position, acceleration, all_winners, the items and the
\* selection; a tick in the state it leaves changes nothing.
C10_ResetSpin ==
    /\ [][reset_spin
            => /\ is_spinning' = FALSE
               /\ speed' = FZero
               /\ spin_winner' = None
               /\ UNCHANGED << position, acceleration, all_winners, items,
                               selected >>]_vars
    /\ [][(speed = FZero /\ spin_winner = None /\ acceleration # FZero /\ tick)
            => UNCHANGED vars]_vars

\* a spin reset in mid-course: speed is 0 while position and acceleration
\* keep their values
C10_Witness ==
    /\ ~is_spinning /\ speed = FZero /\ spin_winner = None
    /\ position # FZero /\ acceleration # FZero


\* C11: previous changes nothing on an empty list, selects index 0 on a
\* non-empty list with no selection, moves selection i > 0 to i - 1 and
\* selection 0 to length - 1; the items are unchanged.  (The first conjunct
\* says that previous does move the selection wherever these rules name
\* another index.)
C11_Retreat ==
    /\ [](Len(items) > 0 /\ (selected = None \/ Len(items) > 1)
            => ENABLED << previous >>_vars)
    /\ [][previous
            => /\ items' = items
               /\ Len(items) = 0 => UNCHANGED vars
               /\ Len(items) > 0 /\ selected = None => selected' = Some(0)
               /\ Len(items) > 0 /\ selected # None /\ selected[1] > 0
                    => selected' = Some(selected[1] - 1)
               /\ Len(items) > 0 /\ selected = Some(0)
                    => selected' = Some(Len(items) - 1)]_vars

\* the second of two participants is selected before any spin
C11_Witness ==
    /\ Len(items) = 2 /\ selected = Some(1)
    /\ items[1].name = "A" /\ items[2].name = "B"
    /\ acceleration = FZero /\ all_winners = << >>


C13_TickWithoutSelection ==
    [][(is_spinning /\ ~FGt(speed, F_0_1) /\ selected = None /\ tick)
         => (UNCHANGED vars /\ ~panicked')]_vars

\* the selection was cleared on a non-empty list at the end of a spin
C13_Witness ==
    /\ is_spinning /\ ~FGt(speed, F_0_1)
    /\ selected = None /\ spin_winner = None
    /\ Len(items) > 0


\* C14: after a tick finalizes a winner, the participant list is unchanged
\* in length and order and its entry at the selected index has
\* is_winner = true.
C14_WinnerFlaggedInList ==
    [][(is_spinning /\ ~FGt(speed, F_0_1) /\ selected # None /\ tick)
         => /\ Len(items') = Len(items)
            /\ \A j \in 1..Len(items) : items'[j].name = items[j].name
            /\ selected' = selected
            /\ items'[selected'[1] + 1].is_winner = TRUE]_vars


\* C15: a tick taken while spinning with speed > 0.1 adds speed to
\* position, advances the selection by whole = floor(position) as next
\* does, subtracts whole from position and multiplies speed by
\* 1 - acceleration; whole is at most 3, and 0 <= position < 1 in every
\* reachable state.
C15_KinematicStep ==
    /\ [](FGt(F_1_0, position))
    /\ [][(is_spinning /\ FGt(speed, F_0_1) /\ tick)
            => LET sum   == FAdd(position, speed)
                   whole == FloorUsize(sum)
               IN  /\ whole <= 3
                   /\ FGe(sum, FromUsize(whole))
                   /\ position' = FSub(sum, FromUsize(whole))
                   /\ speed' = FMul(speed, FSub(F_1_0, acceleration))
                   /\ selected' =
                        IF Len(items) = 0 THEN selected
                        ELSE IF selected = None THEN Some(0)
                        ELSE Some((selected[1] + whole) % Len(items))
                   /\ UNCHANGED << items, all_winners, is_spinning,
                                   acceleration, spin_winner >>]_vars

\* in the middle of a spin over the full list, a fractional position is
\* carried to the next tick
C15_Witness ==
    /\ is_spinning /\ FGt(speed, F_0_1) /\ FGt(F_3_0, speed)
    /\ position # FZero
    /\ Len(items) = MaxLen /\ selected # None


\* C17: all_winners is append-only: a step either leaves it unchanged or is
\* the finalize step of tick appending one entry to it, and every entry
\* has is_winner = true.
C17_HistoryAppendOnly ==
    /\ [](\A j \in 1..Len(all_winners) : all_winners[j].is_winner = TRUE)
    /\ [][\/ all_winners' = all_winners
          \/ /\ tick
             /\ is_spinning /\ ~FGt(speed, F_0_1) /\ selected # None
             /\ Len(all_winners') = Len(all_winners) + 1
             /\ SubSeq(all_winners', 1, Len(all_winners)) = all_winners]_vars

\* two winners are on record after the engine was reset
C17_Witness ==
    /\ Len(all_winners) = 2
    /\ ~is_spinning /\ speed = FZero /\ spin_winner = None

\* C18: spin_winner is absent whenever is_spinning is true; when present it
\* is the last entry of all_winners and has is_winner = true; it is set
\* only by the finalize step of tick and cleared only by start_spin on a
\* non-empty list and by reset_spin.
C18_SpinWinner ==
    /\ [](is_spinning => spin_winner = None)
    /\ [](spin_winner # None
            => /\ Len(all_winners) > 0
               /\ spin_winner = Some(all_winners[Len(all_winners)])
               /\ spin_winner[1].is_winner = TRUE)
    /\ [][(spin_winner = None /\ spin_winner' # None)
            => (tick /\ is_spinning /\ ~FGt(speed, F_0_1))]_vars
    /\ [][(spin_winner # None /\ spin_winner' # spin_winner)
            => /\ spin_winner' = None
               /\ (Len(items) > 0 /\ start_spin) \/ reset_spin]_vars

\* the winner shown is the second of two different winners
C18_Witness ==
    /\ Len(all_winners) = 2
    /\ all_winners[1] # all_winners[2]
    /\ spin_winner = Some(all_winners[2])


\* the selection after k successive next(1) calls
RECURSIVE NextOneTimes(_, _, _)
NextOneTimes(its, sel, k) ==
    IF k = 0 THEN sel ELSE NextOneTimes(its, NextIndex(its, sel, 1), k - 1)

\* C19: on a non-empty list with a selection, next(k) selects what k
\* successive next(1) calls select; Len(items) successive next(1) calls
\* return to the selection they started from; previous after next(1), and
\* next(1) after previous, restore the selection.  On three items with
\* nothing selected, four next(1) calls select indices 0, 1, 2 and 0.
C19_CircularLaws ==
    /\ Len(items) > 0 /\ selected # None
        => /\ \A k \in 0..MaxStep :
                NextIndex(items, selected, k) = NextOneTimes(items, selected, k)
           /\ NextOneTimes(items, selected, Len(items)) = selected
           /\ PreviousIndex(items, NextIndex(items, selected, 1)) = selected
           /\ NextIndex(items, PreviousIndex(items, selected), 1) = selected
    /\ Len(items) = 3 /\ selected = None
        => /\ NextOneTimes(items, selected, 1) = Some(0)
           /\ NextOneTimes(items, selected, 2) = Some(1)
           /\ NextOneTimes(items, selected, 3) = Some(2)
           /\ NextOneTimes(items, selected, 4) = Some(0)

\* the last of three items is selected after a winner was drawn
C19_Witness ==
    /\ Len(items) = 3
    /\ selected = Some(2)
    /\ Len(all_winners) = 1
    /\ ~is_spinning


\* the whole steps of the successive ticks of a spin of decay 0.2: the
\* floors of position + speed as position carries the fraction over
ExpectedWhole == << 3, 2, 2, 1, 2, 1, 0, 1, 0, 1, 0, 0, 1, 0, 0, 0 >>

\* the f32 values nearest to 3.0, 2.4, 1.92, 1.536 and 1.2288
ClaimedSpeeds ==
    << F_3_0, F32(10066330, -22), F32(16106127, -23), F32(12884902, -23),
       F32(10307922, -23) >>

\* f32 values one unit in the last place apart at most
WithinOneUlp(a, b) ==
    /\ a.e = b.e
    /\ a.m - b.m \in {-1, 0, 1}

\* s, s * (1 - 0.2), ... : the speed before each of the ticks 0..k of a spin
RECURSIVE SpeedsFrom(_, _)
SpeedsFrom(s, k) ==
    IF k = 0 THEN << s >>
    ELSE << s >> \o SpeedsFrom(FMul(s, FSub(F_1_0, F_0_2)), k - 1)

FixedDecaySpeeds == SpeedsFrom(F_3_0, Len(ExpectedWhole))

\* the number of ticks the running spin has taken
TickIndex ==
    CHOOSE k \in 0..Len(ExpectedWhole) : FixedDecaySpeeds[k + 1] = speed

\* the whole steps of tick k and of the ticks after it
RECURSIVE WholeFrom(_)
WholeFrom(k) ==
    IF k >= Len(ExpectedWhole) THEN 0 ELSE ExpectedWhole[k + 1] + WholeFrom(k + 1)

\* the index the running spin stops on: the selection advanced by the whole
\* steps still to come
PredictedWinner == (selected[1] + WholeFrom(TickIndex)) % Len(items)

\* s2 is s1 * 0.8 up to two units in the last place of s2
FourFifths(s1, s2) ==
    /\ s2.e \in {s1.e, s1.e - 1}
    /\ LET d == 5 * s2.m - (IF s2.e = s1.e THEN 4 ELSE 8) * s1.m
       IN  d \in -10..10

\* C16: in a tick-only spin of decay 0.2 the speed before successive ticks
\* is 3.0, 2.4, 1.92, 1.536, 1.2288, ..., each four fifths of the one before
\* up to f32 rounding; ticks are kinematic steps while speed > 0.1 (sixteen
\* of them); the winner is the item at index (c + the sum of the whole steps
\* of all ticks) mod n for the index c selected at start_spin: that index is
\* predicted at start_spin, every kinematic step keeps the prediction, and
\* the finalizing tick appends the predicted item.  With nothing selected at
\* start_spin the first tick selects index 0 whatever its whole steps are.
\* Every tick is a function of the state, so the winner is determined.
C16_CumulativeWinner ==
    /\ [](\A k \in 1..Len(ClaimedSpeeds) :
            WithinOneUlp(FixedDecaySpeeds[k], ClaimedSpeeds[k]))
    /\ [](is_spinning
            => /\ \E k \in 0..Len(ExpectedWhole) : FixedDecaySpeeds[k + 1] = speed
               /\ FGt(speed, F_0_1) <=> TickIndex < Len(ExpectedWhole)
               /\ ~panicked => ENABLED << tick >>_vars)
    /\ [][(~is_spinning /\ is_spinning')
            => /\ TickIndex' = 0
               /\ selected' = selected
               /\ selected # None
                    => PredictedWinner'
                         = (selected[1] + WholeFrom(0)) % Len(items)]_vars
    /\ [][(is_spinning /\ is_spinning' /\ tick)
            => /\ FGt(speed, F_0_1)
               /\ TickIndex' = TickIndex + 1
               /\ FourFifths(speed, speed')
               /\ selected # None => PredictedWinner' = PredictedWinner
               /\ selected = None
                    => /\ selected' = Some(0)
                       /\ PredictedWinner' = WholeFrom(1) % Len(items)]_vars
    /\ [][(is_spinning /\ ~is_spinning')
            => /\ ~FGt(speed, F_0_1)
               /\ selected # None
               /\ selected[1] = PredictedWinner
               /\ spin_winner' = Some(WinnerCopy(items[PredictedWinner + 1]))
               /\ all_winners'
                    = Append(all_winners, WinnerCopy(items[PredictedWinner + 1]))
               /\ items' = items]_vars

\* [A, B, C] with A selected at start_spin: 14 whole steps later C has won
C16_Witness ==
    /\ Len(items) = 3
    /\ ~is_spinning
    /\ acceleration = F_0_2
    /\ speed = FixedDecaySpeeds[Len(ExpectedWhole) + 1]
    /\ selected = Some((0 + 14) % 3)
    /\ all_winners = << WinnerCopy(Participant("C")) >>
    /\ spin_winner = Some(WinnerCopy(Participant("C")))

=============================================================================
